---- MODULE Spec2Model ----
(***************************************************************************)
(* A model of DiffUtils (Techcable/DiffUtils): the Myers diff engine       *)
(* (diffutils/myers.py), the Patch/Delta/Chunk model (diffutils/core.py),  *)
(* the unified-diff emitter (diffutils/output.py) and the unified-diff     *)
(* parser with the top-level helpers (diffutils/api.py, engine.py).        *)
(*                                                                         *)
(* Conventions.                                                            *)
(*  - A Python str is a sequence of one-character strings; a Python list   *)
(*    or tuple is a sequence; Python index p is TLA+ index p + 1.          *)
(*  - A call that may raise returns a record whose field exc is "None"     *)
(*    when it returned and the exception's class name when it raised.      *)
(*  - myers.py calls Chunk.size() and output.py/myers.py call              *)
(*    Patch.get_deltas(); core.py defines them as the properties           *)
(*    Chunk.size and Patch.deltas.  The model reads both calls as reads of *)
(*    those properties.                                                    *)
(*  - Let(value, LAMBDA name : statements) is a local variable: the value  *)
(*    is computed once and the statements after the assignment read it.    *)
(***************************************************************************)
EXTENDS Integers, Sequences, FiniteSets, TLC

VARIABLES
    original,      \* the original sequence A
    revised,       \* the revised sequence B
    context_size,  \* the context size C given to the emitter
    patch,         \* the Patch diff(A, B) returned, None before
    diff_out,      \* how diff(A, B) ended
    api_out,       \* how api.diff(A, B) and api.patch(A, .) ended
    apply_out,     \* how patch.apply_to(target) ended
    restore_out,   \* how patch.restore(B) ended
    unified_out,   \* how generate_unified_diff ended
    hunks,         \* the hunks a hand-written diff text was made of
    unified_diff,  \* the lines given to parse_unified_diff
    parse_out,     \* how parse_unified_diff(text, lenient) ended
    reapply_out,   \* how api.patch(A, parsed patch) ended
    undo_out,      \* how api.undo_patch(B, patch) ended
    native,        \* whether diffutils._native.myers can be imported
    created,       \* the DiffEngine.create calls made, and how each ended
    built,         \* a Patch that deltas are added to and read from
    added,         \* the deltas added to built, kept sorted at each insertion
    deltas_read,   \* what the last read of built.deltas returned
    path_out,      \* how build_path(A, B) ended
    twin,          \* a second Patch that deltas are added to and read from
    twin_added,    \* the deltas added to twin, in the order of the calls
    equal_out      \* what built == twin returned

vars == <<original, revised, context_size, patch, diff_out, api_out, apply_out,
          restore_out, unified_out, hunks, unified_diff, parse_out, reapply_out,
          undo_out, native, created, built, added, deltas_read,
          path_out, twin, twin_added, equal_out>>

\* The variables of the engine registry, and of the patch under construction.
registry_vars == <<native, created>>
building_vars == <<built, added, deltas_read>>
\* The variables of the path search and of the comparison of two patches.
side_vars == <<path_out, twin, twin_added, equal_out>>

\* A local variable: name = value, then the statements F that follow it.
Let(value, F(_)) == F(value)

\* ------------------------------------------------------------------ bounds

\* Longest input sequence.
MaxLen == 3
\* Largest context size.
MaxContext == 1
\* Most DiffEngine.create calls of one run.
MaxCalls == 2
\* Most deltas added to a patch built by hand.
MaxAdds == 3
\* Largest position of a delta added by hand.
MaxPosition == 2
\* The lines of the original a patch built by hand is generated for.
MaxLines == 6
\* Most hunks of a hand-written diff text.
MaxHunks == 2
\* Most body lines of a hand-written hunk.
MaxBody == 2
\* Most body lines of a hand-written hunk that may hold a line of no known tag.
MaxTagged == 3
\* Most deltas added to each of two patches that are compared.
MaxPairAdds == 2
\* Most hunks of a hand-written text of several hunks.
MaxCited == 3
\* Largest count a hand-written hunk header states.
MaxCount == 2

\* The elements (lines) the inputs are drawn from.
Elements == {<<"a">>, <<"b">>}

RECURSIVE SeqsUpTo(_, _)
SeqsUpTo(S, n) ==
    IF n = 0 THEN {<<>>}
    ELSE Let(SeqsUpTo(S, n - 1), LAMBDA shorter :
            shorter \cup {Append(s, x) : s \in {t \in shorter : Len(t) = n - 1}, x \in S})

Inputs == SeqsUpTo(Elements, MaxLen)

\* ------------------------------------------------------------------ Python values

Max(a, b) == IF a >= b THEN a ELSE b
Min(a, b) == IF a <= b THEN a ELSE b

\* Python's None, and a test for it (objects carry none |-> FALSE).
None == [none |-> TRUE]
IsNone(x) == x.none

\* The TLA+ index of Python index idx in s, 0 when Python raises IndexError
\* (a negative index counts from the end).
PyIdx(s, idx) ==
    IF idx >= 0 /\ idx < Len(s) THEN idx + 1
    ELSE IF idx < 0 /\ idx >= -Len(s) THEN Len(s) + idx + 1
    ELSE 0

\* s[a:b]: a slice clamps its bounds and never raises.
PySlice(s, a, b) ==
    LET n == Len(s) IN
    Let(IF a < 0 THEN Max(n + a, 0) ELSE Min(a, n), LAMBDA lo :
    Let(IF b < 0 THEN Max(n + b, 0) ELSE Min(b, n), LAMBDA hi :
       IF lo >= hi THEN <<>> ELSE SubSeq(s, lo + 1, hi)))

\* list.insert(idx, x): the index is clamped to the list.
PyInsert(s, idx, x) ==
    LET n == Len(s) IN
    Let(IF idx < 0 THEN Max(n + idx, 0) ELSE Min(idx, n), LAMBDA at :
       SubSeq(s, 1, at) \o <<x>> \o SubSeq(s, at + 1, n))

\* del s[idx], for an index PyIdx found.
PyDelAt(s, p) == SubSeq(s, 1, p - 1) \o SubSeq(s, p + 1, Len(s))

RECURSIVE Reverse(_)
Reverse(s) == IF s = <<>> THEN <<>> ELSE Append(Reverse(Tail(s)), Head(s))

\* ------------------------------------------------------------------ core.py: Chunk, Delta

Chunk(position, lines) == [position |-> position, lines |-> lines]

\* Chunk.size (a property): the number of lines.
Chunk_size(chunk) == Len(chunk.lines)

\* Chunk.last()
Chunk_last(chunk) == chunk.position + Chunk_size(chunk) - 1

InsertDelta(o, r) == [type |-> "INSERT", original |-> o, revised |-> r]
DeleteDelta(o, r) == [type |-> "DELETE", original |-> o, revised |-> r]
ChangeDelta(o, r) == [type |-> "CHANGE", original |-> o, revised |-> r]

\* ------------------------------------------------------------------ core.py: Patch

\* Patch(): _deltas is a list (isTuple FALSE) until it is read.
Patch_init == [none |-> FALSE, _deltas |-> <<>>, isTuple |-> FALSE]

\* Mutant of Patch_add_delta: the list copied from the tuple is not stored back.
Patch_add_delta_copy_dropped(p, delta) ==
    IF p.isTuple THEN p
    ELSE [p EXCEPT !._deltas = Append(p._deltas, delta), !.isTuple = FALSE]

\* Patch.add_delta: a tuple is copied back to a list, then the delta appended.
Patch_add_delta(p, delta) ==
    [p EXCEPT !._deltas = Append(p._deltas, delta), !.isTuple = FALSE]

\* Patch.__eq__(self, other) for two patches: other._deltas == self._deltas.
\* A list and a tuple are never equal; two lists, or two tuples, are equal when
\* they hold equal deltas (type, chunks' lines and positions) in equal order.
Patch_eq(self, other) ==
    /\ other.isTuple = self.isTuple
    /\ other._deltas = self._deltas

\* Mutant of SortByPosition: the list is frozen unsorted.
SortByPosition_unsorted(s) == s

\* list.sort(key=original.position): a stable sort (insertion of each element
\* after the elements whose key is not larger).
RECURSIVE SortByPosition(_)
SortByPosition(s) ==
    IF s = <<>> THEN <<>>
    ELSE Let(SortByPosition(SubSeq(s, 1, Len(s) - 1)), LAMBDA rest :
         LET x == s[Len(s)] IN
         LET keep == {n \in 0..Len(rest) :
                    \A m \in 1..Len(rest) :
                        m <= n <=> rest[m].original.position <= x.original.position} IN
         LET at == CHOOSE n \in keep : TRUE IN
            SubSeq(rest, 1, at) \o <<x>> \o SubSeq(rest, at + 1, Len(rest)))

\* Patch.deltas (a property): on the first read after an insertion the list is
\* sorted and frozen into a tuple, which is what the patch then holds.  The
\* value read is the _deltas of the patch returned here.
Patch_deltas(p) ==
    IF p.isTuple THEN p
    ELSE [p EXCEPT !._deltas = SortByPosition(p._deltas), !.isTuple = TRUE]

\* ------------------------------------------------------------------ myers.py: path nodes

Ok(v) == [exc |-> "None", val |-> v]
Raise(e) == [exc |-> e, val |-> None]

\* DiffNode.lastSnake: a snake's lastSnake is the snake itself.
LastSnake(node) == IF node.snake THEN node ELSE node.lastSnake

\* create_snake(i, j, prev)
create_snake(i, j, prev) ==
    [none |-> FALSE, i |-> i, j |-> j, snake |-> TRUE, prev |-> prev, lastSnake |-> None]

\* create_diff_node(i, j, prev): the node's prev is prev.lastSnake.
create_diff_node(i, j, prev) ==
    Let(LastSnake(prev), LAMBDA p :
       IF i < 0 \/ j < 0
       THEN Ok([none |-> FALSE, i |-> i, j |-> j, snake |-> FALSE, prev |-> p,
                lastSnake |-> None])
       ELSE IF IsNone(p) THEN Raise("AttributeError")
       ELSE Ok([none |-> FALSE, i |-> i, j |-> j, snake |-> FALSE, prev |-> p,
                lastSnake |-> LastSnake(p)]))

\* diagonal[idx] read for its .i: IndexError outside the list, AttributeError
\* on a slot holding None.
Slot(diagonal, idx) ==
    Let(PyIdx(diagonal, idx), LAMBDA p :
       IF p = 0 THEN Raise("IndexError")
       ELSE IF IsNone(diagonal[p]) THEN Raise("AttributeError")
       ELSE Ok(diagonal[p]))

\* diagonal[idx] = v
SetSlot(diagonal, idx, v) ==
    Let(PyIdx(diagonal, idx), LAMBDA p :
       IF p = 0 THEN Raise("IndexError") ELSE Ok([diagonal EXCEPT ![p] = v]))

\* The snake loop of build_path: the i reached from (i, j), or IndexError.
RECURSIVE SnakeEnd(_, _, _, _)
SnakeEnd(orig, rev, i, j) ==
    IF i < Len(orig) /\ j < Len(rev)
    THEN IF PyIdx(orig, i) = 0 \/ PyIdx(rev, j) = 0 THEN Raise("IndexError")
         ELSE IF orig[PyIdx(orig, i)] = rev[PyIdx(rev, j)]
              THEN SnakeEnd(orig, rev, i + 1, j + 1)
              ELSE Ok(i)
    ELSE Ok(i)

\* The predecessor build_path chooses on diagonal k of round d.
ChoosePrev(diagonal, middle, d, k) ==
    LET kplus == middle + k + 1 IN
    LET kminus == middle + k - 1 IN
    Let(Let(Slot(diagonal, kplus), LAMBDA sp :
                 IF sp.exc # "None" THEN sp
                 ELSE Ok([i |-> sp.val.i, prev |-> sp.val])), LAMBDA down :
    Let(Let(Slot(diagonal, kminus), LAMBDA sm :
                 IF sm.exc # "None" THEN sm
                 ELSE Ok([i |-> sm.val.i + 1, prev |-> sm.val])), LAMBDA right :
       IF k = -d THEN down
       ELSE IF k # d
            THEN Let(Slot(diagonal, kminus), LAMBDA sm :
                 Let(Slot(diagonal, kplus), LAMBDA sp :
                    IF sm.exc # "None" THEN sm
                    ELSE IF sp.exc # "None" THEN sp
                    ELSE IF sm.val.i < sp.val.i THEN down ELSE right))
            ELSE right))

\* Mutant of build_path_step: the pass returns when either sequence is used up.
build_path_step_either_end(orig, rev, diagonal, middle, d, k) ==
    LET kmiddle == middle + k IN
    LET kminus == kmiddle - 1 IN
    Let(ChoosePrev(diagonal, middle, d, k), LAMBDA chosen :
    LET stop(e) == [exc |-> e, returned |-> FALSE, node |-> None, diagonal |-> diagonal] IN
       IF chosen.exc # "None" THEN stop(chosen.exc)
       ELSE Let(SetSlot(diagonal, kminus, None), LAMBDA diag1 :
            LET i == chosen.val.i IN
            LET j == i - k IN
            Let(create_diff_node(i, j, chosen.val.prev), LAMBDA node :
            Let(SnakeEnd(orig, rev, i, j), LAMBDA iend :
               IF diag1.exc # "None" THEN stop(diag1.exc)
               ELSE IF node.exc # "None" THEN stop(node.exc)
               ELSE IF iend.exc # "None" THEN stop(iend.exc)
               ELSE LET i2 == iend.val IN
                    LET j2 == j + (i2 - i) IN
                    Let(IF i2 > node.val.i
                             THEN create_snake(i2, j2, node.val)
                             ELSE node.val, LAMBDA node2 :
                    Let(SetSlot(diag1.val, kmiddle, node2), LAMBDA diag2 :
                       IF diag2.exc # "None" THEN stop(diag2.exc)
                       ELSE [exc |-> "None",
                             returned |-> i2 >= Len(orig) \/ j2 >= Len(rev),
                             node |-> node2, diagonal |-> diag2.val]))))))

\* One pass of build_path's inner loop, for diagonal k of round d: returned
\* tells whether the pass reached the return statement.
build_path_step(orig, rev, diagonal, middle, d, k) ==
    LET kmiddle == middle + k IN
    LET kminus == kmiddle - 1 IN
    Let(ChoosePrev(diagonal, middle, d, k), LAMBDA chosen :
    LET stop(e) == [exc |-> e, returned |-> FALSE, node |-> None, diagonal |-> diagonal] IN
       IF chosen.exc # "None" THEN stop(chosen.exc)
       ELSE Let(SetSlot(diagonal, kminus, None), LAMBDA diag1 :
            LET i == chosen.val.i IN
            LET j == i - k IN
            Let(create_diff_node(i, j, chosen.val.prev), LAMBDA node :
            Let(SnakeEnd(orig, rev, i, j), LAMBDA iend :
               IF diag1.exc # "None" THEN stop(diag1.exc)
               ELSE IF node.exc # "None" THEN stop(node.exc)
               ELSE IF iend.exc # "None" THEN stop(iend.exc)
               ELSE LET i2 == iend.val IN
                    LET j2 == j + (i2 - i) IN
                    Let(IF i2 > node.val.i
                             THEN create_snake(i2, j2, node.val)
                             ELSE node.val, LAMBDA node2 :
                    Let(SetSlot(diag1.val, kmiddle, node2), LAMBDA diag2 :
                       IF diag2.exc # "None" THEN stop(diag2.exc)
                       ELSE [exc |-> "None",
                             returned |-> i2 >= Len(orig) /\ j2 >= Len(rev),
                             node |-> node2, diagonal |-> diag2.val]))))))

\* build_path's while loop over k in round d, from diagonal k on: returned
\* tells whether a pass reached the return statement, and k is then its diagonal.
RECURSIVE build_path_round(_, _, _, _, _, _)
build_path_round(orig, rev, diagonal, middle, d, k) ==
    IF k > d
    THEN [exc |-> "None", returned |-> FALSE, node |-> None, diagonal |-> diagonal, k |-> k]
    ELSE Let(build_path_step(orig, rev, diagonal, middle, d, k), LAMBDA pass :
            IF pass.exc # "None" \/ pass.returned
            THEN [exc |-> pass.exc, returned |-> pass.returned, node |-> pass.node,
                  diagonal |-> pass.diagonal, k |-> k]
            ELSE build_path_round(orig, rev, pass.diagonal, middle, d, k + 2))

\* build_path's for loop from round d on; d and k of the outcome are the loop
\* variables at the return statement.
RECURSIVE build_path_from(_, _, _, _)
build_path_from(orig, rev, diagonal, d) ==
    LET max_size == Len(orig) + Len(rev) + 1 IN
    LET middle == (1 + 2 * max_size) \div 2 IN
       IF d >= max_size THEN Raise("RuntimeError")
       ELSE Let(build_path_round(orig, rev, diagonal, middle, d, -d), LAMBDA round :
               IF round.exc # "None" THEN Raise(round.exc)
               ELSE IF round.returned
               THEN [exc |-> "None", val |-> round.node, d |-> d, k |-> round.k]
               ELSE Let(SetSlot(round.diagonal, middle + d - 1, None), LAMBDA cleared :
                       IF cleared.exc # "None" THEN cleared
                       ELSE build_path_from(orig, rev, cleared.val, d + 1)))

\* Mutant of build_path: the bootstrap snake is stored in diagonal[middle].
build_path_bootstrap_misplaced(orig, rev) ==
    LET max_size == Len(orig) + Len(rev) + 1 IN
    LET size == 1 + 2 * max_size IN
    LET middle == size \div 2 IN
    Let([p \in 1..size |->
                    IF p = middle + 1 THEN create_snake(0, -1, None) ELSE None], LAMBDA diagonal :
       build_path_from(orig, rev, diagonal, 0))

\* build_path(original, revised)
build_path(orig, rev) ==
    LET max_size == Len(orig) + Len(rev) + 1 IN
    LET size == 1 + 2 * max_size IN
    LET middle == size \div 2 IN
    Let([p \in 1..size |->
                    IF p = middle + 2 THEN create_snake(0, -1, None) ELSE None], LAMBDA diagonal :
       build_path_from(orig, rev, diagonal, 0))

\* Mutant of MakeDelta: the classes of the first two branches are exchanged.
MakeDelta_exchanged(original_chunk, revised_chunk) ==
    IF Chunk_size(original_chunk) = 0 /\ Chunk_size(revised_chunk) # 0
    THEN DeleteDelta(original_chunk, revised_chunk)
    ELSE IF Chunk_size(original_chunk) > 0 /\ Chunk_size(revised_chunk) = 0
    THEN InsertDelta(original_chunk, revised_chunk)
    ELSE ChangeDelta(original_chunk, revised_chunk)

\* The delta build_revision makes of the two chunks.
MakeDelta(original_chunk, revised_chunk) ==
    IF Chunk_size(original_chunk) = 0 /\ Chunk_size(revised_chunk) # 0
    THEN InsertDelta(original_chunk, revised_chunk)
    ELSE IF Chunk_size(original_chunk) > 0 /\ Chunk_size(revised_chunk) = 0
    THEN DeleteDelta(original_chunk, revised_chunk)
    ELSE ChangeDelta(original_chunk, revised_chunk)

\* build_revision's while loop.
RECURSIVE build_revision_from(_, _, _, _)
build_revision_from(path, orig, rev, p) ==
    IF IsNone(path) \/ IsNone(path.prev) \/ path.prev.j < 0 THEN Ok(p)
    ELSE IF path.snake THEN Raise("ValueError")
    ELSE LET i == path.i IN
         LET j == path.j IN
         LET anchor == path.prev IN
         Let(Chunk(anchor.i, PySlice(orig, anchor.i, i)), LAMBDA original_chunk :
         Let(Chunk(anchor.j, PySlice(rev, anchor.j, j)), LAMBDA revised_chunk :
         Let(Patch_add_delta(p, MakeDelta(original_chunk, revised_chunk)), LAMBDA p1 :
         LET next == IF anchor.snake THEN anchor.prev ELSE anchor IN
            build_revision_from(next, orig, rev, p1))))

\* build_revision(path, original, revised)
build_revision(path, orig, rev) ==
    build_revision_from(IF path.snake THEN path.prev ELSE path, orig, rev, Patch_init)

\* myers.diff(original, revised)
diff(orig, rev) ==
    Let(build_path(orig, rev), LAMBDA path :
       IF path.exc # "None" THEN path ELSE build_revision(path.val, orig, rev))

\* ------------------------------------------------------------------ core.py: verify, apply, restore

\* A list operation's outcome: exc, and the list as the operation left it
\* (lists are mutated in place, so a raise keeps what was done before it).
Done(lst) == [exc |-> "None", val |-> lst]
Failed(e, lst) == [exc |-> e, val |-> lst]

\* The loop of Chunk.verify from offset on.
RECURSIVE VerifyLines(_, _, _)
VerifyLines(chunk, target, offset) ==
    IF offset >= Len(chunk.lines) THEN "None"
    ELSE LET index == chunk.position + offset IN
         Let(PyIdx(target, index), LAMBDA p :
            IF p = 0 THEN "IndexError"
            ELSE IF target[p] # chunk.lines[offset + 1] THEN "PatchFailedException"
            ELSE VerifyLines(chunk, target, offset + 1))

\* Chunk.verify(target): the exception it raises, "None" when it returns.
Chunk_verify(chunk, target) ==
    IF Chunk_last(chunk) > Len(target) THEN "PatchFailedException"
    ELSE VerifyLines(chunk, target, 0)

\* ChangeDelta.verify / DeleteDelta.verify / InsertDelta.verify
Delta_verify(delta, target) ==
    IF delta.type = "CHANGE"
    THEN Let(Chunk_verify(delta.original, target), LAMBDA v :
            IF v # "None" THEN v
            ELSE IF delta.original.position > Len(target) THEN "PatchFailedException"
            ELSE "None")
    ELSE IF delta.type = "DELETE" THEN Chunk_verify(delta.original, target)
    ELSE IF delta.original.position > Len(target) THEN "PatchFailedException"
    ELSE "None"

\* for i in range(size): del target[position]
RECURSIVE DeleteAt(_, _, _)
DeleteAt(target, position, size) ==
    IF size <= 0 THEN Done(target)
    ELSE Let(PyIdx(target, position), LAMBDA p :
            IF p = 0 THEN Failed("IndexError", target)
            ELSE DeleteAt(PyDelAt(target, p), position, size - 1))

\* for i, line in enumerate(lines): target.insert(position + i, line)
RECURSIVE InsertAt(_, _, _, _)
InsertAt(target, position, lines, i) ==
    IF i >= Len(lines) THEN target
    ELSE InsertAt(PyInsert(target, position + i, lines[i + 1]), position, lines, i + 1)

\* Delta.apply_to(target) of the three delta classes.
Delta_apply_to(delta, target) ==
    Let(Delta_verify(delta, target), LAMBDA v :
    LET position == delta.original.position IN
       IF v # "None" THEN Failed(v, target)
       ELSE IF delta.type = "CHANGE"
       THEN Let(DeleteAt(target, position, Chunk_size(delta.original)), LAMBDA cut :
               IF cut.exc # "None" THEN cut
               ELSE Done(InsertAt(cut.val, position, delta.revised.lines, 0)))
       ELSE IF delta.type = "DELETE"
       THEN DeleteAt(target, position, Chunk_size(delta.original))
       ELSE Done(InsertAt(target, position, delta.revised.lines, 0)))

\* n == line for an int n and a line of the target: an int never equals a str.
IntEqualsLine(n, line) == FALSE

\* target.remove(n) for an int n: the first element equal to n is removed,
\* ValueError when there is none.
PyRemoveInt(target, n) ==
    Let({p \in 1..Len(target) : IntEqualsLine(n, target[p])}, LAMBDA hits :
       IF hits = {} THEN Failed("ValueError", target)
       ELSE Done(PyDelAt(target, CHOOSE p \in hits : \A q \in hits : p <= q)))

\* ChangeDelta.restore's first loop: for i in range(size): target.remove(i)
RECURSIVE RemoveRange(_, _, _)
RemoveRange(target, i, size) ==
    IF i >= size THEN Done(target)
    ELSE Let(PyRemoveInt(target, i), LAMBDA r :
            IF r.exc # "None" THEN r ELSE RemoveRange(r.val, i + 1, size))

\* InsertDelta.restore's loop: for i in range(size): target.remove(position)
RECURSIVE RemovePosition(_, _, _)
RemovePosition(target, position, size) ==
    IF size <= 0 THEN Done(target)
    ELSE Let(PyRemoveInt(target, position), LAMBDA r :
            IF r.exc # "None" THEN r ELSE RemovePosition(r.val, position, size - 1))

\* Delta.restore(target) of the three delta classes.
Delta_restore(delta, target) ==
    LET position == delta.revised.position IN
       IF delta.type = "CHANGE"
       THEN Let(RemoveRange(target, 0, Chunk_size(delta.revised)), LAMBDA cut :
               IF cut.exc # "None" THEN cut
               ELSE Done(InsertAt(cut.val, position, delta.original.lines, 0)))
       ELSE IF delta.type = "DELETE"
       THEN Done(InsertAt(target, position, delta.original.lines, 0))
       ELSE RemovePosition(target, position, Chunk_size(delta.revised))

\* The heap of one apply_to/restore call: the caller's list and the list the
\* call works on.
CallHeap(target) == [target |-> target, result |-> <<>>]

\* Mutant of ListCopy: result = target, the caller's list itself.
ListCopy_alias(heap) == [ref |-> "target", heap |-> heap]

\* result = list(target): a new list with the target's elements.
ListCopy(heap) == [ref |-> "result", heap |-> [heap EXCEPT !.result = heap.target]]

\* for delta in reversed(deltas): delta.<op>(result), on the list ref names.
RECURSIVE RunDeltas(_, _, _, _)
RunDeltas(op, rdeltas, heap, ref) ==
    IF rdeltas = <<>> THEN [exc |-> "None", heap |-> heap]
    ELSE Let(IF op = "apply_to" THEN Delta_apply_to(Head(rdeltas), heap[ref])
              ELSE Delta_restore(Head(rdeltas), heap[ref]), LAMBDA r :
         LET h == [heap EXCEPT ![ref] = r.val] IN
            IF r.exc # "None" THEN [exc |-> r.exc, heap |-> h]
            ELSE RunDeltas(op, Tail(rdeltas), h, ref))

\* Patch.apply_to(target) / Patch.restore(target): the patch after its deltas
\* were read, the exception, the caller's list after the call, the list returned.
Patch_run(op, p, target) ==
    Let(ListCopy(CallHeap(target)), LAMBDA c :
    Let(Patch_deltas(p), LAMBDA p1 :
    Let(RunDeltas(op, Reverse(p1._deltas), c.heap, c.ref), LAMBDA run :
       [done |-> TRUE, patch |-> p1, exc |-> run.exc, target |-> run.heap.target,
        result |-> run.heap[c.ref], arg |-> target])))

Patch_apply_to(p, target) == Patch_run("apply_to", p, target)

Patch_restore(p, target) == Patch_run("restore", p, target)

\* ------------------------------------------------------------------ engine.py, api.py

\* DiffEngine.INSTANCE.diff: the engine DiffEngine.create() returns
\* (diffutils._myers.MyersEngine) runs the Myers search.
MyersEngine_diff(orig, rev) == diff(orig, rev)

\* An engine name that may be None.
Named(s) == [none |-> FALSE, v |-> s]

\* The names DiffEngine.create knows.
KnownNames == {"native", "plain", "native-myers", "plain-myers"}

\* NativeDiffEngine()
NativeDiffEngine == [name |-> "native-myers", hash_optimization |-> TRUE]

\* MyersEngine(hash_optimization=hash_optimization), the engine of
\* diffutils._myers.
MyersEngine(hash_optimization) ==
    [name |-> "plain-myers", hash_optimization |-> hash_optimization]

\* from ._native.myers import native_diff, then the rest of the try block of
\* DiffEngine.create: the exception raised there, "None" when the block
\* returns NativeDiffEngine().
TryNative(hash_optimization, importable) ==
    IF ~importable THEN "ImportError"
    ELSE IF ~hash_optimization THEN "ValueError"
    ELSE "None"

\* DiffEngine.create(name, hash_optimization), where importable tells whether
\* diffutils._native.myers can be imported.
DiffEngine_create(name, hash_optimization, importable) ==
    IF ~IsNone(name) /\ name.v \notin KnownNames THEN Raise("ValueError")
    ELSE IF IsNone(name) \/ name.v \in {"native", "native-myers"}
    THEN Let(TryNative(hash_optimization, importable), LAMBDA e :
            IF e = "None" THEN Ok(NativeDiffEngine)
            ELSE IF e = "ImportError"
            THEN IF IsNone(name) THEN Ok(MyersEngine(hash_optimization))
                 ELSE Raise("ImportError")
            ELSE Raise(e))
    ELSE Ok(MyersEngine(hash_optimization))

\* api.diff(original, revised) for two lists: None when the patch has no deltas.
api_diff(orig, rev) ==
    Let(MyersEngine_diff(orig, rev), LAMBDA r :
       IF r.exc # "None" THEN r
       ELSE Let(Patch_deltas(r.val), LAMBDA p :
               IF p._deltas = <<>> THEN Ok(None) ELSE Ok(p)))

\* api.patch(original, patch) for a list: patch.apply_to(original).
api_patch(orig, p) ==
    IF IsNone(p)
    THEN [done |-> TRUE, patch |-> p, exc |-> "AttributeError", target |-> orig,
          result |-> <<>>, arg |-> orig]
    ELSE Patch_apply_to(p, orig)

\* api.undo_patch(revised, patch) for a list: patch.restore(revised) is called
\* and its value dropped; the function has no return statement.
api_undo_patch(rev, p) ==
    Let(Patch_restore(p, rev), LAMBDA r :
       [done |-> TRUE, patch |-> r.patch, exc |-> r.exc, target |-> r.target,
        restored |-> r.result, arg |-> rev, returned |-> None])

\* ------------------------------------------------------------------ output.py

Digits == <<"0", "1", "2", "3", "4", "5", "6", "7", "8", "9">>

\* str(n) for an int n.
RECURSIVE Str(_)
Str(n) ==
    IF n < 0 THEN <<"-">> \o Str(-n)
    ELSE IF n < 10 THEN <<Digits[n + 1]>>
    ELSE Str(n \div 10) \o <<Digits[(n % 10) + 1]>>

\* line.endswith('\n')
EndsWithNewline(line) == Len(line) > 0 /\ line[Len(line)] = "\n"

\* UnifiedDiffOutput._write(prefix, line) on the buffer's text.
Output_write(buffer, prefix, line) ==
    buffer \o <<prefix>> \o line \o (IF EndsWithNewline(line) THEN <<>> ELSE <<"\n">>)

\* The writes of a sequence of lines under one prefix.
RECURSIVE Output_write_all(_, _, _)
Output_write_all(buffer, prefix, lines) ==
    IF lines = <<>> THEN buffer
    ELSE Output_write_all(Output_write(buffer, prefix, Head(lines)), prefix, Tail(lines))

\* UnifiedDiffOutput.add_delta_text(delta)
Output_add_delta_text(buffer, delta) ==
    Output_write_all(Output_write_all(buffer, "-", delta.original.lines),
                     "+", delta.revised.lines)

\* str.splitlines(True): the text cut after each line break, the breaks kept
\* (of the line breaks splitlines knows, the texts here hold only "\n").
RECURSIVE SplitLinesKeepEnds(_, _)
SplitLinesKeepEnds(text, current) ==
    IF text = <<>> THEN (IF current = <<>> THEN <<>> ELSE <<current>>)
    ELSE IF Head(text) = "\n"
         THEN <<Append(current, "\n")>> \o SplitLinesKeepEnds(Tail(text), <<>>)
         ELSE SplitLinesKeepEnds(Tail(text), Append(current, Head(text)))

\* UnifiedDiffOutput.get_lines()
Output_get_lines(buffer) == SplitLinesKeepEnds(buffer, <<>>)

\* for lineIndex in range(from, to): add_context_line(original_lines[lineIndex]),
\* with both totals counted up: the buffer, the lines written, the exception.
RECURSIVE ContextLines(_, _, _, _, _)
ContextLines(buffer, original_lines, from, to, n) ==
    IF from >= to THEN [exc |-> "None", buffer |-> buffer, n |-> n]
    ELSE Let(PyIdx(original_lines, from), LAMBDA p :
            IF p = 0 THEN [exc |-> "IndexError", buffer |-> buffer, n |-> n]
            ELSE ContextLines(Output_write(buffer, " ", original_lines[p]),
                              original_lines, from + 1, to, n + 1))

\* The loop of process_deltas over deltas[1:]; st holds the buffer, the two
\* totals and delta, the delta before deltas[delta_index].
RECURSIVE ProcessRest(_, _, _, _)
ProcessRest(original_lines, deltas, delta_index, st) ==
    IF delta_index >= Len(deltas) THEN st
    ELSE LET next_delta == deltas[delta_index + 1] IN
         LET delta == st.delta IN
         LET intermediate_start == delta.original.position + Len(delta.original.lines) IN
         Let(ContextLines(st.buffer, original_lines, intermediate_start,
                             next_delta.original.position, 0), LAMBDA ctx :
            IF ctx.exc # "None" THEN [st EXCEPT !.exc = ctx.exc]
            ELSE ProcessRest(original_lines, deltas, delta_index + 1,
                    [exc |-> "None",
                     buffer |-> Output_add_delta_text(ctx.buffer, next_delta),
                     original_total |-> st.original_total + ctx.n + Len(delta.original.lines),
                     revised_total |-> st.revised_total + ctx.n + Len(delta.revised.lines),
                     delta |-> next_delta]))

\* The hunk header process_deltas writes.
HunkHeader(original_start, original_total, revised_start, revised_total) ==
    <<"@", "@", " ", "-">> \o Str(original_start) \o <<",">> \o Str(original_total)
        \o <<" ", "+">> \o Str(revised_start) \o <<",">> \o Str(revised_total)
        \o <<" ", "@", "@", "\n">>

\* The revised start process_deltas computes for the hunk of delta.
RevisedStart(delta, ctx_size) ==
    LET revised_start == delta.original.position + 1 - ctx_size IN
       IF revised_start < 1 THEN 1 ELSE revised_start

\* process_deltas(original_lines, deltas, context_size): the lines of one hunk.
process_deltas(original_lines, deltas, ctx_size) ==
    LET delta == deltas[1] IN
    LET start == delta.original.position + 1 - ctx_size IN
    LET original_start == IF start < 1 THEN 1 ELSE start IN
    Let(RevisedStart(delta, ctx_size), LAMBDA revised_start :
    LET cstart == delta.original.position - ctx_size IN
    LET context_start == IF cstart < 0 THEN 0 ELSE cstart IN
    Let(ContextLines(<<>>, original_lines, context_start,
                           delta.original.position, 0), LAMBDA before :
    Let([exc |-> before.exc,
              buffer |-> Output_add_delta_text(before.buffer, delta),
              original_total |-> before.n + Len(delta.original.lines),
              revised_total |-> before.n + Len(delta.revised.lines),
              delta |-> delta], LAMBDA first :
    Let(IF first.exc # "None" THEN first
            ELSE ProcessRest(original_lines, deltas, 1, first), LAMBDA rest :
    LET last == rest.delta IN
    LET after_start == last.original.position + Len(last.original.lines) IN
    Let(ContextLines(rest.buffer, original_lines, after_start,
                          Min(after_start + ctx_size, Len(original_lines)), 0), LAMBDA after :
       IF rest.exc # "None" THEN [exc |-> rest.exc, lines |-> <<>>]
       ELSE IF after.exc # "None" THEN [exc |-> after.exc, lines |-> <<>>]
       ELSE [exc |-> "None",
             lines |-> <<HunkHeader(original_start, rest.original_total + after.n,
                                    revised_start, rest.revised_total + after.n)>>
                       \o Output_get_lines(after.buffer)])))))

\* Mutant of SameBatch: deltas whose contexts just meet are kept apart.
SameBatch_strict(delta, next_delta, ctx_size) ==
    delta.original.position + Len(delta.original.lines) + ctx_size
        > next_delta.original.position - ctx_size

\* Whether generate_unified_diff puts next_delta in the batch of delta.
SameBatch(delta, next_delta, ctx_size) ==
    delta.original.position + Len(delta.original.lines) + ctx_size
        >= next_delta.original.position - ctx_size

\* The batching loop of generate_unified_diff from deltas[i] on.
RECURSIVE GenerateFrom(_, _, _, _, _, _)
GenerateFrom(original_lines, deltas, ctx_size, i, delta_batch, result) ==
    IF i >= Len(deltas)
    THEN Let(process_deltas(original_lines, delta_batch, ctx_size), LAMBDA h :
            [exc |-> h.exc, lines |-> result \o h.lines])
    ELSE LET delta == deltas[i] IN
         LET next_delta == deltas[i + 1] IN
            IF SameBatch(delta, next_delta, ctx_size)
            THEN GenerateFrom(original_lines, deltas, ctx_size, i + 1,
                              Append(delta_batch, next_delta), result)
            ELSE Let(process_deltas(original_lines, delta_batch, ctx_size), LAMBDA h :
                    IF h.exc # "None" THEN [exc |-> h.exc, lines |-> result]
                    ELSE GenerateFrom(original_lines, deltas, ctx_size, i + 1,
                                      <<next_delta>>, result \o h.lines))

\* The two file header lines generate_unified_diff writes.
FileHeader(original_file, revised_file) ==
    << <<"-", "-", "-">> \o original_file, <<"+", "+", "+">> \o revised_file >>

\* generate_unified_diff(original_file, revised_file, original_lines, patch,
\* context_size) for a list original_lines: the patch after its deltas were
\* read, the exception, the lines returned.
generate_unified_diff(original_file, revised_file, original_lines, p, ctx_size) ==
    Let(Patch_deltas(p), LAMBDA p1 :
    LET deltas == p1._deltas IN
       IF Len(deltas) = 0 THEN [done |-> TRUE, patch |-> p1, exc |-> "None", lines |-> <<>>]
       ELSE Let(GenerateFrom(original_lines, deltas, ctx_size, 1, <<deltas[1]>>,
                              FileHeader(original_file, revised_file)), LAMBDA g :
               [done |-> TRUE, patch |-> p1, exc |-> g.exc, lines |-> g.lines]))

\* The file names of the tests (tests/test_diff.py).
OriginalFile == <<"a">>
RevisedFile == <<"b">>

\* ------------------------------------------------------------------ engine.py: diff_chunks

\* Mutant of ShiftDelta: both chunks are shifted by the original position.
ShiftDelta_original_only(delta, original_position, revised_position) ==
    [delta EXCEPT !.original.position = @ + original_position,
                  !.revised.position = @ + original_position]

\* The position shift diff_chunks gives one delta.
ShiftDelta(delta, original_position, revised_position) ==
    [delta EXCEPT !.original.position = @ + original_position,
                  !.revised.position = @ + revised_position]

\* DiffEngine.diff_chunks(original_chunk, revised_chunk): the deltas of the
\* diff of the chunks' lines, read through Patch.deltas and shifted.
diff_chunks(original_chunk, revised_chunk) ==
    Let(MyersEngine_diff(original_chunk.lines, revised_chunk.lines), LAMBDA r :
       IF r.exc # "None" THEN [exc |-> r.exc, deltas |-> <<>>]
       ELSE Let(Patch_deltas(r.val)._deltas, LAMBDA deltas :
               [exc |-> "None",
                deltas |-> [n \in 1..Len(deltas) |->
                               ShiftDelta(deltas[n], original_chunk.position,
                                          revised_chunk.position)]]))

\* ------------------------------------------------------------------ api.py: parse_unified_diff

\* An int that may be None.
Some(n) == [none |-> FALSE, v |-> n]

\* \s and \d of the characters the texts hold.
IsSpace(c) == c \in {" ", "\n", "\t"}
IsDigit(c) == c \in {Digits[n] : n \in 1..10}

\* The position after the longest run of spaces / digits that starts at pos.
RECURSIVE SkipSpaces(_, _)
SkipSpaces(line, pos) ==
    IF pos <= Len(line) /\ IsSpace(line[pos]) THEN SkipSpaces(line, pos + 1) ELSE pos

RECURSIVE SkipDigits(_, _)
SkipDigits(line, pos) ==
    IF pos <= Len(line) /\ IsDigit(line[pos]) THEN SkipDigits(line, pos + 1) ELSE pos

\* Whether lit stands in line at pos.
LitAt(line, pos, lit) ==
    pos + Len(lit) - 1 <= Len(line) /\ SubSeq(line, pos, pos + Len(lit) - 1) = lit

\* (\d+)(?:,(\d+))? at pos: the two groups (the second may be None) and the
\* position after the match.
MatchRange(line, pos) ==
    Let(SkipDigits(line, pos), LAMBDA e1 :
    Let(SkipDigits(line, e1 + 1), LAMBDA e2 :
       IF e1 = pos THEN [ok |-> FALSE]
       ELSE IF LitAt(line, e1, <<",">>) /\ e2 > e1 + 1
       THEN [ok |-> TRUE, ln |-> SubSeq(line, pos, e1 - 1),
             count |-> [none |-> FALSE, v |-> SubSeq(line, e1 + 1, e2 - 1)], next |-> e2]
       ELSE [ok |-> TRUE, ln |-> SubSeq(line, pos, e1 - 1), count |-> None, next |-> e1]))

\* $ at position q of line: the end of the line, or before a newline that ends
\* it (the last \s+ may give that newline back).
AtEnd(line, q) == q = Len(line) + 1 \/ (q = Len(line) /\ line[q] = "\n")

\* __unifiedDiffChunkRe.search(line):
\* ^@@\s+-(?:(\d+)(?:,(\d+))?)\s+\+(?:(\d+)(?:,(\d+))?)\s+@@$
\* ($ matches at the end of the line and before a newline that ends it).
MatchHeader(line) ==
    Let(SkipSpaces(line, 3), LAMBDA s1 :
    Let(MatchRange(line, s1 + 1), LAMBDA o :
    Let(SkipSpaces(line, o.next), LAMBDA s2 :
    Let(MatchRange(line, s2 + 1), LAMBDA r :
    Let(SkipSpaces(line, r.next), LAMBDA s3 :
       IF /\ LitAt(line, 1, <<"@", "@">>)
          /\ s1 > 3
          /\ LitAt(line, s1, <<"-">>)
          /\ o.ok
          /\ s2 > o.next
          /\ LitAt(line, s2, <<"+">>)
          /\ r.ok
          /\ s3 > r.next
          /\ LitAt(line, s3, <<"@", "@">>)
          /\ AtEnd(line, s3 + 2)
       THEN [matched |-> TRUE, g1 |-> o.ln, g2 |-> o.count, g3 |-> r.ln, g4 |-> r.count]
       ELSE [matched |-> FALSE])))))

\* int(s) of a string of digits.
RECURSIVE PyInt(_)
PyInt(s) ==
    IF s = <<>> THEN 0
    ELSE 10 * PyInt(SubSeq(s, 1, Len(s) - 1))
         + (CHOOSE n \in 0..9 : Digits[n + 1] = s[Len(s)])

\* The payload of a PatchFormatError or PatchFormatWarning.
FormatError(kind, a, b, tag, line_number, line) ==
    [none |-> FALSE,
     message |-> [kind |-> kind, expected |-> a, actual |-> b, tag |-> tag],
     line_number |-> line_number, line |-> line]

\* report_error(message, line_number, line): a warning when lenient, else
\* PatchFormatError is raised.
report_error(st, is_lenient, payload) ==
    IF is_lenient THEN [st EXCEPT !.warnings = Append(@, payload)]
    ELSE [st EXCEPT !.exc = "PatchFormatError", !.error = payload]

\* The lines of the chunk whose tag is in tags, without the tag.
RECURSIVE Tagged(_, _)
Tagged(chunk, tags) ==
    IF chunk = <<>> THEN <<>>
    ELSE (IF PySlice(Head(chunk), 0, 1) \in tags
          THEN <<PySlice(Head(chunk), 1, Len(Head(chunk)))>> ELSE <<>>)
         \o Tagged(Tail(chunk), tags)

\* patch.add_delta(delta) for each delta in turn.
RECURSIVE AddAll(_, _)
AddAll(p, deltas) ==
    IF deltas = <<>> THEN p ELSE AddAll(Patch_add_delta(p, Head(deltas)), Tail(deltas))

\* The line process_chunk cites for a count mismatch: text[offset - 2].
CitedLine(text, offset) == PyIdx(text, offset - 2)

\* Mutant of CitedLineNumber: the number of the first body line is cited.
CitedLineNumber_body(offset) == offset

\* The line number process_chunk cites for a count mismatch.
CitedLineNumber(offset) == offset - 1

\* process_chunk(raw_chunk, chunk_offset, expected_original, expected_revised)
\* on the parser's state st.
process_chunk(st, text, is_lenient) ==
    IF IsNone(st.chunk_offset) THEN [st EXCEPT !.exc = "AssertionError"]
    ELSE IF IsNone(st.expected_original) \/ IsNone(st.expected_revised)
    THEN [st EXCEPT !.exc = "AssertionError"]
    ELSE IF \E n \in 1..Len(st.raw_chunk) :
                PySlice(st.raw_chunk[n], 0, 1) \notin {<<" ">>, <<"+">>, <<"-">>}
    THEN [st EXCEPT !.exc = "AssertionError"]
    ELSE
    LET offset == st.chunk_offset.v IN
    Let(Tagged(st.raw_chunk, {<<" ">>, <<"-">>}), LAMBDA original_lines :
    Let(Tagged(st.raw_chunk, {<<" ">>, <<"+">>}), LAMBDA revised_lines :
    LET actual_original == Len(original_lines) IN
    LET actual_revised == Len(revised_lines) IN
    Let(CitedLine(text, offset), LAMBDA cited :
    Let(IF st.expected_original.v # actual_original
           THEN IF cited = 0 THEN [st EXCEPT !.exc = "IndexError"]
                ELSE report_error(st, is_lenient,
                        FormatError("Expected original lines", st.expected_original.v,
                                    actual_original, "", CitedLineNumber(offset),
                                    text[cited]))
           ELSE st, LAMBDA st1 :
    Let(IF st1.exc # "None" THEN st1
           ELSE IF st.expected_revised.v # actual_revised
           THEN IF cited = 0 THEN [st1 EXCEPT !.exc = "IndexError"]
                ELSE report_error(st1, is_lenient,
                        FormatError("Expected revised lines", st.expected_revised.v,
                                    actual_revised, "", CitedLineNumber(offset),
                                    text[cited]))
           ELSE st1, LAMBDA st2 :
    Let(diff_chunks(Chunk(st.old_ln - 1, original_lines),
                      Chunk(st.new_ln - 1, revised_lines)), LAMBDA dc :
       IF st2.exc # "None" THEN st2
       ELSE IF dc.exc # "None" THEN [st2 EXCEPT !.exc = dc.exc]
       ELSE [st2 EXCEPT !.patch = AddAll(@, dc.deltas), !.raw_chunk = <<>>]))))))

\* The parser's step on a line that matched the hunk header expression.
ParseHeader(st, text, is_lenient, m) ==
    Let(IF st.raw_chunk # <<>>
           THEN Let(process_chunk(st, text, is_lenient), LAMBDA q :
                   IF q.exc # "None" THEN q ELSE [q EXCEPT !.chunk_offset = None])
           ELSE st, LAMBDA st1 :
    Let(PyInt(m.g1), LAMBDA old_ln :
    Let(PyInt(m.g3), LAMBDA new_ln :
       IF st1.exc # "None" THEN st1
       ELSE IF IsNone(m.g2) THEN [st1 EXCEPT !.exc = "TypeError", !.old_ln = old_ln]
       ELSE IF IsNone(m.g4)
       THEN [st1 EXCEPT !.exc = "TypeError", !.old_ln = old_ln, !.new_ln = new_ln,
                        !.expected_original = Some(PyInt(m.g2.v))]
       ELSE [st1 EXCEPT !.old_ln = IF old_ln = 0 THEN 1 ELSE old_ln,
                        !.new_ln = IF new_ln = 0 THEN 1 ELSE new_ln,
                        !.expected_original = Some(PyInt(m.g2.v)),
                        !.expected_revised = Some(PyInt(m.g4.v))])))

\* The parser's step on a line that did not match it: a body line.
ParseBody(st, is_lenient, line_number, line) ==
    Let(IF st.raw_chunk = <<>>
           THEN IF ~IsNone(st.chunk_offset) THEN [st EXCEPT !.exc = "AssertionError"]
                ELSE [st EXCEPT !.chunk_offset = Some(line_number)]
           ELSE st, LAMBDA st1 :
    Let(PySlice(line, 0, 1), LAMBDA tag :
       IF st1.exc # "None" THEN st1
       ELSE IF line # <<>>
       THEN IF tag \in {<<" ">>, <<"+">>, <<"-">>}
            THEN [st1 EXCEPT !.raw_chunk = Append(@, tag \o PySlice(line, 1, Len(line)))]
            ELSE report_error(st1, is_lenient,
                              FormatError("Invalid tag", 0, 0, tag[1], line_number, line))
       ELSE [st1 EXCEPT !.raw_chunk = Append(@, <<" ">>)]))

\* The loop of parse_unified_diff over text from index on.
RECURSIVE ParseFrom(_, _, _, _)
ParseFrom(text, is_lenient, index, st) ==
    IF st.exc # "None" THEN st
    ELSE IF index >= Len(text) THEN process_chunk(st, text, is_lenient)
    ELSE LET line == text[index + 1] IN
         LET line_number == index + 1 IN
         Let(MatchHeader(line), LAMBDA m :
            IF ~is_lenient /\ \E n \in 1..Len(line) : line[n] = "\n"
            THEN report_error(st, is_lenient,
                              FormatError("Line contained newline", 0, 0, "",
                                          line_number, line))
            ELSE IF st.in_prelude
            THEN ParseFrom(text, is_lenient, index + 1,
                           IF LitAt(line, 1, <<"+", "+", "+">>)
                           THEN [st EXCEPT !.in_prelude = FALSE] ELSE st)
            ELSE IF m.matched
            THEN ParseFrom(text, is_lenient, index + 1, ParseHeader(st, text, is_lenient, m))
            ELSE ParseFrom(text, is_lenient, index + 1,
                           ParseBody(st, is_lenient, line_number, line)))

\* parse_unified_diff(text, lenient) for a list of lines: the exception, the
\* error raised, the warnings given, the patch returned.
parse_unified_diff(text, is_lenient) ==
    Let(ParseFrom(text, is_lenient, 0,
              [exc |-> "None", error |-> None, warnings |-> <<>>,
               in_prelude |-> TRUE, raw_chunk |-> <<>>, patch |-> Patch_init,
               chunk_offset |-> None, old_ln |-> 0, new_ln |-> 0,
               expected_original |-> None, expected_revised |-> None]), LAMBDA st :
       [done |-> TRUE, exc |-> st.exc, error |-> st.error, warnings |-> st.warnings,
        patch |-> IF st.exc = "None" THEN st.patch ELSE None,
        text |-> text, lenient |-> is_lenient])

\* ------------------------------------------------------------------ the state machine

Pending == [done |-> FALSE]

\* No engine has been created by hand.
NoRegistry ==
    /\ native = FALSE
    /\ created = <<>>

\* No patch is being built by hand.
NoBuilding ==
    /\ built = None
    /\ added = <<>>
    /\ deltas_read = Pending

\* No path has been searched by hand and no two patches were compared.
NoSide ==
    /\ path_out = Pending
    /\ twin = None
    /\ twin_added = <<>>
    /\ equal_out = Pending

\* The diff pipeline: inputs A, B and C; nothing has run.
Init ==
    /\ original \in Inputs
    /\ revised \in Inputs
    /\ context_size \in 0..MaxContext
    /\ patch = None
    /\ diff_out = Pending
    /\ api_out = Pending
    /\ apply_out = Pending
    /\ restore_out = Pending
    /\ unified_out = Pending
    /\ hunks = <<>>
    /\ unified_diff = <<>>
    /\ parse_out = Pending
    /\ reapply_out = Pending
    /\ undo_out = Pending
    /\ NoRegistry
    /\ NoSide
    /\ NoBuilding

\* patch = diff(original, revised), the Myers diff of myers.py
Diff ==
    /\ ~diff_out.done
    /\ \E r \in {diff(original, revised)} :
          /\ diff_out' = [done |-> TRUE, exc |-> r.exc]
          /\ patch' = r.val
    /\ UNCHANGED <<original, revised, context_size, api_out, apply_out, restore_out,
                   unified_out, hunks, unified_diff, parse_out, reapply_out,
                   undo_out, registry_vars, building_vars, side_vars>>

\* patch.apply_to(original)
ApplyTo ==
    /\ diff_out.done /\ ~IsNone(patch) /\ ~apply_out.done
    /\ \E r \in {Patch_apply_to(patch, original)} :
          /\ apply_out' = r
          /\ patch' = r.patch
          /\ original' = r.target
    /\ UNCHANGED <<revised, context_size, diff_out, api_out, restore_out, unified_out,
                   hunks, unified_diff, parse_out, reapply_out,
                   undo_out, registry_vars, building_vars, side_vars>>

\* patch.apply_to(revised): the patch applied to a sequence it was not made for
ApplyToOther ==
    /\ diff_out.done /\ ~IsNone(patch) /\ ~apply_out.done
    /\ \E r \in {Patch_apply_to(patch, revised)} :
          /\ apply_out' = r
          /\ patch' = r.patch
          /\ revised' = r.target
    /\ UNCHANGED <<original, context_size, diff_out, api_out, restore_out, unified_out,
                   hunks, unified_diff, parse_out, reapply_out,
                   undo_out, registry_vars, building_vars, side_vars>>

\* patch.restore(revised)
Restore ==
    /\ diff_out.done /\ ~IsNone(patch) /\ ~restore_out.done
    /\ \E r \in {Patch_restore(patch, revised)} :
          /\ restore_out' = r
          /\ patch' = r.patch
          /\ revised' = r.target
    /\ UNCHANGED <<original, context_size, diff_out, api_out, apply_out, unified_out,
                   hunks, unified_diff, parse_out, reapply_out,
                   undo_out, registry_vars, building_vars, side_vars>>

\* api.undo_patch(revised, patch)
UndoPatch ==
    /\ diff_out.done /\ ~IsNone(patch) /\ ~undo_out.done
    /\ \E r \in {api_undo_patch(revised, patch)} :
          /\ undo_out' = r
          /\ patch' = r.patch
          /\ revised' = r.target
    /\ UNCHANGED <<original, context_size, diff_out, api_out, apply_out, restore_out,
                   unified_out, hunks, unified_diff, parse_out, reapply_out,
                   registry_vars, building_vars, side_vars>>

\* p = api.diff(original, revised); api.patch(original, p)
ApiDiffPatch ==
    /\ ~diff_out.done /\ ~api_out.done
    /\ \E d \in {api_diff(original, revised)} :
          IF d.exc # "None"
          THEN api_out' = [done |-> TRUE, diff_exc |-> d.exc, returned |-> None,
                           patched |-> Pending]
          ELSE api_out' = [done |-> TRUE, diff_exc |-> "None", returned |-> d.val,
                           patched |-> api_patch(original, d.val)]
    /\ UNCHANGED <<original, revised, context_size, patch, diff_out, apply_out,
                   restore_out, unified_out, hunks, unified_diff, parse_out, reapply_out,
                   undo_out, registry_vars, building_vars, side_vars>>

\* unified_diff = generate_unified_diff("a", "b", original, patch, context_size)
GenerateUnifiedDiff ==
    /\ diff_out.done /\ ~IsNone(patch) /\ ~unified_out.done
    /\ \E r \in {generate_unified_diff(OriginalFile, RevisedFile, original, patch,
                                      context_size)} :
          /\ unified_out' = r
          /\ patch' = r.patch
          /\ unified_diff' = r.lines
    /\ UNCHANGED <<original, revised, context_size, diff_out, api_out, apply_out,
                   restore_out, hunks, parse_out, reapply_out,
                   undo_out, registry_vars, building_vars, side_vars>>

\* parse_unified_diff(unified_diff, lenient)
ParseUnifiedDiff ==
    /\ unified_out.done /\ unified_out.exc = "None" /\ ~parse_out.done
    /\ \E l \in BOOLEAN : parse_out' = parse_unified_diff(unified_diff, l)
    /\ UNCHANGED <<original, revised, context_size, patch, diff_out, api_out, apply_out,
                   restore_out, unified_out, hunks, unified_diff, reapply_out,
                   undo_out, registry_vars, building_vars, side_vars>>

\* api.patch(original, parsed_patch)
PatchParsed ==
    /\ parse_out.done /\ parse_out.exc = "None" /\ ~reapply_out.done
    /\ reapply_out' = api_patch(original, parse_out.patch)
    /\ original' = reapply_out'.target
    /\ UNCHANGED <<revised, context_size, patch, diff_out, api_out, apply_out,
                   restore_out, unified_out, hunks, unified_diff, parse_out,
                   undo_out, registry_vars, building_vars, side_vars>>

Next ==
    \/ Diff
    \/ ApplyTo
    \/ ApplyToOther
    \/ Restore
    \/ UndoPatch
    \/ ApiDiffPatch
    \/ GenerateUnifiedDiff
    \/ ParseUnifiedDiff
    \/ PatchParsed

Spec == Init /\ [][Next]_vars

\* ------------------------------------------------------------------ the parser on hand-written texts

\* The body lines of hand-written hunks: a context line, a removed line, an
\* inserted line.
BodyLines == {<<" ", "a">>, <<"-", "a">>, <<"+", "b">>}

\* A hand-written hunk: the counts its header states, and its body.
Hunks ==
    [old_count : 0..MaxCount, new_count : 0..MaxCount, body : SeqsUpTo(BodyLines, MaxBody)]

\* The header line of a hand-written hunk, which starts at line 1 of both files.
HunkLine(h) ==
    <<"@", "@", " ", "-", "1", ",">> \o Str(h.old_count) \o <<" ", "+", "1", ",">>
        \o Str(h.new_count) \o <<" ", "@", "@">>

\* The text of a sequence of hunks after the two file header lines.
RECURSIVE HunkText(_)
HunkText(hs) ==
    IF hs = <<>> THEN <<>>
    ELSE <<HunkLine(Head(hs))>> \o Head(hs).body \o HunkText(Tail(hs))

DiffText(hs) ==
    << <<"-", "-", "-", " ", "a">>, <<"+", "+", "+", " ", "b">> >> \o HunkText(hs)

\* A hand-written diff text of one to MaxHunks hunks; nothing is parsed yet.
InitParse ==
    /\ hunks \in {hs \in SeqsUpTo(Hunks, MaxHunks) : hs # <<>>}
    /\ unified_diff = DiffText(hunks)
    /\ original = <<>>
    /\ revised = <<>>
    /\ context_size = 0
    /\ patch = None
    /\ diff_out = Pending
    /\ api_out = Pending
    /\ apply_out = Pending
    /\ restore_out = Pending
    /\ unified_out = Pending
    /\ parse_out = Pending
    /\ reapply_out = Pending
    /\ undo_out = Pending
    /\ NoRegistry
    /\ NoSide
    /\ NoBuilding

\* parse_unified_diff(text)
ParseStrict ==
    /\ ~parse_out.done
    /\ parse_out' = parse_unified_diff(unified_diff, FALSE)
    /\ UNCHANGED <<original, revised, context_size, patch, diff_out, api_out, apply_out,
                   restore_out, unified_out, hunks, unified_diff, reapply_out,
                   undo_out, registry_vars, building_vars, side_vars>>

\* parse_unified_diff(text, lenient=True)
ParseLenient ==
    /\ ~parse_out.done
    /\ parse_out' = parse_unified_diff(unified_diff, TRUE)
    /\ UNCHANGED <<original, revised, context_size, patch, diff_out, api_out, apply_out,
                   restore_out, unified_out, hunks, unified_diff, reapply_out,
                   undo_out, registry_vars, building_vars, side_vars>>

NextParse == ParseStrict \/ ParseLenient

SpecParse == InitParse /\ [][NextParse]_vars

\* ------------------------------------------------------------------ hunk headers with omitted counts

\* The pipeline of diff(A, B) is not run.
NoPipeline ==
    /\ original = <<>>
    /\ revised = <<>>
    /\ context_size = 0
    /\ patch = None
    /\ diff_out = Pending
    /\ api_out = Pending
    /\ apply_out = Pending
    /\ restore_out = Pending
    /\ unified_out = Pending
    /\ reapply_out = Pending
    /\ undo_out = Pending

\* A count of a hunk header: omitted, or a number.
Counts == {None} \cup {Some(n) : n \in 0..MaxCount}

\* The start lines of the hand-written headers.
Starts == {1, 3}

\* A hand-written hunk whose header may omit its counts.
HeaderHunks ==
    [start : Starts, old_count : Counts, new_count : Counts,
     body : SeqsUpTo(BodyLines, MaxBody)]

\* A range of a hunk header: the start, then a comma and the count if stated.
RangeText(start, count) ==
    Str(start) \o (IF IsNone(count) THEN <<>> ELSE <<",">> \o Str(count.v))

\* The header line of such a hunk.
HeaderLine(h) ==
    <<"@", "@", " ", "-">> \o RangeText(h.start, h.old_count) \o <<" ", "+">>
        \o RangeText(h.start, h.new_count) \o <<" ", "@", "@">>

\* The text of one such hunk after the two file header lines.
HeaderText(h) ==
    << <<"-", "-", "-", " ", "a">>, <<"+", "+", "+", " ", "b">>, HeaderLine(h) >> \o h.body

\* A hand-written diff text of one hunk; nothing is parsed yet.
InitHeader ==
    /\ hunks \in {<<h>> : h \in HeaderHunks}
    /\ unified_diff = HeaderText(hunks[1])
    /\ parse_out = Pending
    /\ NoPipeline
    /\ NoRegistry
    /\ NoSide
    /\ NoBuilding

SpecHeader == InitHeader /\ [][NextParse]_vars

\* ------------------------------------------------------------------ body lines of no known tag

\* The body lines of these hunks: the three kinds of BodyLines and a line whose
\* first character is no tag.
TaggedLines == BodyLines \cup {<<"x", "q">>}

\* The number of lines of body whose first character is in tags.
TagCount(body, tags) == Cardinality({n \in 1..Len(body) : body[n][1] \in tags})

\* A hand-written hunk whose header states the counts of its body.
TaggedHunks ==
    {[old_count |-> TagCount(body, {" ", "-"}), new_count |-> TagCount(body, {" ", "+"}),
      body |-> body] : body \in SeqsUpTo(TaggedLines, MaxTagged)}

\* A hand-written diff text of one to MaxHunks such hunks; nothing is parsed yet.
InitBody ==
    /\ hunks \in {hs \in SeqsUpTo(TaggedHunks, MaxHunks) : hs # <<>>}
    /\ unified_diff = DiffText(hunks)
    /\ parse_out = Pending
    /\ NoPipeline
    /\ NoRegistry
    /\ NoSide
    /\ NoBuilding

SpecBody == InitBody /\ [][NextParse]_vars

\* ------------------------------------------------------------------ the path search alone

\* Two sequences; no path has been searched.
InitPath ==
    /\ original \in Inputs
    /\ revised \in Inputs
    /\ context_size = 0
    /\ patch = None
    /\ diff_out = Pending
    /\ api_out = Pending
    /\ apply_out = Pending
    /\ restore_out = Pending
    /\ unified_out = Pending
    /\ reapply_out = Pending
    /\ undo_out = Pending
    /\ hunks = <<>>
    /\ unified_diff = <<>>
    /\ parse_out = Pending
    /\ NoRegistry
    /\ NoSide
    /\ NoBuilding

\* build_path(original, revised)
BuildPath ==
    /\ ~path_out.done
    /\ \E r \in {build_path(original, revised)} :
          path_out' = IF r.exc = "None"
                      THEN [done |-> TRUE, exc |-> "None", node |-> r.val, d |-> r.d, k |-> r.k]
                      ELSE [done |-> TRUE, exc |-> r.exc]
    /\ UNCHANGED <<original, revised, context_size, patch, diff_out, api_out, apply_out,
                   restore_out, unified_out, hunks, unified_diff, parse_out, reapply_out,
                   undo_out, registry_vars, building_vars, twin, twin_added, equal_out>>

NextPath == BuildPath

SpecPath == InitPath /\ [][NextPath]_vars

\* ------------------------------------------------------------------ restoring any sequence

\* patch.restore(target) for a target of any content; the caller's target lives
\* only for this call.
RestoreOther ==
    /\ diff_out.done /\ ~IsNone(patch) /\ ~restore_out.done
    /\ \E target \in Inputs :
          \E r \in {Patch_restore(patch, target)} :
              /\ restore_out' = r
              /\ patch' = r.patch
    /\ UNCHANGED <<original, revised, context_size, diff_out, api_out, apply_out,
                   unified_out, hunks, unified_diff, parse_out, reapply_out,
                   undo_out, registry_vars, building_vars, side_vars>>

NextRestore == Diff \/ RestoreOther

SpecRestore == Init /\ [][NextRestore]_vars

\* ------------------------------------------------------------------ count errors of several hunks

\* A hand-written hunk of one of two bodies, whose header states 1 or 2 for
\* each count: it may agree with the body or not, on either side.
CitedHunks ==
    [old_count : {1, 2}, new_count : {1, 2},
     body : {<< <<"-", "a">>, <<"+", "b">> >>,
             << <<" ", "a">>, <<"-", "a">>, <<"+", "b">> >>}]

\* A hand-written diff text of one to MaxCited such hunks; nothing is parsed yet.
InitCite ==
    /\ hunks \in {hs \in SeqsUpTo(CitedHunks, MaxCited) : hs # <<>>}
    /\ unified_diff = DiffText(hunks)
    /\ parse_out = Pending
    /\ NoPipeline
    /\ NoRegistry
    /\ NoSide
    /\ NoBuilding

SpecCite == InitCite /\ [][NextParse]_vars

\* ------------------------------------------------------------------ hunks at several places

\* The start lines of the two files that these hunks' headers state.
ChunkStarts == {<<1, 1>>, <<3, 4>>}

\* The bodies of these hunks: their diffs have one delta, two deltas and none.
ChunkBodies ==
    {<< <<" ", "a">>, <<"+", "b">> >>,
     << <<" ", "a">>, <<"-", "a">>, <<"+", "b">>, <<" ", "a">> >>,
     << <<"-", "a">>, <<"+", "b">> >>}

\* A hand-written hunk whose header states its start lines and the counts of
\* its body.
ChunkHunks ==
    {[old_start |-> s[1], new_start |-> s[2], body |-> body,
      old_count |-> TagCount(body, {" ", "-"}), new_count |-> TagCount(body, {" ", "+"})] :
        s \in ChunkStarts, body \in ChunkBodies}

\* The header line of such a hunk.
ChunkLine(h) ==
    <<"@", "@", " ", "-">> \o RangeText(h.old_start, Some(h.old_count)) \o <<" ", "+">>
        \o RangeText(h.new_start, Some(h.new_count)) \o <<" ", "@", "@">>

\* The text of a sequence of such hunks after the two file header lines.
RECURSIVE ChunkText(_)
ChunkText(hs) ==
    IF hs = <<>> THEN <<>>
    ELSE <<ChunkLine(Head(hs))>> \o Head(hs).body \o ChunkText(Tail(hs))

\* A hand-written diff text of one to MaxCited such hunks; nothing is parsed yet.
InitChunks ==
    /\ hunks \in {hs \in SeqsUpTo(ChunkHunks, MaxCited) : hs # <<>>}
    /\ unified_diff = << <<"-", "-", "-", " ", "a">>, <<"+", "+", "+", " ", "b">> >>
                          \o ChunkText(hunks)
    /\ parse_out = Pending
    /\ NoPipeline
    /\ NoRegistry
    /\ NoSide
    /\ NoBuilding

SpecChunks == InitChunks /\ [][NextParse]_vars

\* ------------------------------------------------------------------ the engine registry

\* The names create is called with: None, the names it knows, and others.
EngineNames ==
    {None} \cup {Named(s) : s \in KnownNames \cup {"", "Plain", "myers", "native_myers"}}

\* A process in which the accelerated engine can or cannot be imported; no
\* engine has been created yet.
InitEngine ==
    /\ native \in BOOLEAN
    /\ created = <<>>
    /\ hunks = <<>>
    /\ unified_diff = <<>>
    /\ parse_out = Pending
    /\ NoPipeline
    /\ NoBuilding
    /\ NoSide

\* DiffEngine.create(name, hash_optimization)
Create ==
    /\ Len(created) < MaxCalls
    /\ \E name \in EngineNames, hash_optimization \in BOOLEAN :
          \E r \in {DiffEngine_create(name, hash_optimization, native)} :
             created' = Append(created,
                               [name |-> name, hash_optimization |-> hash_optimization,
                                exc |-> r.exc, engine |-> r.val])
    /\ UNCHANGED <<original, revised, context_size, patch, diff_out, api_out, apply_out,
                   restore_out, unified_out, hunks, unified_diff, parse_out, reapply_out,
                   undo_out, native, building_vars, side_vars>>

NextEngine == Create

SpecEngine == InitEngine /\ [][NextEngine]_vars

\* ------------------------------------------------------------------ a patch built by hand

\* The deltas added by hand: an insertion or a deletion of one line at a
\* position.
HandDeltas ==
    {InsertDelta(Chunk(position, <<>>), Chunk(position, <<<<"a">>>>)) :
        position \in 0..MaxPosition}
    \cup {DeleteDelta(Chunk(position, <<<<"a">>>>), Chunk(position, <<>>)) :
             position \in 0..MaxPosition}

\* patch = Patch(): nothing is added and nothing read yet.
InitPatch ==
    /\ built = Patch_init
    /\ added = <<>>
    /\ deltas_read = [done |-> FALSE, value |-> <<>>]
    /\ hunks = <<>>
    /\ unified_diff = <<>>
    /\ parse_out = Pending
    /\ NoPipeline
    /\ NoRegistry
    /\ NoSide

\* patch.add_delta(delta)
AddDelta ==
    /\ Len(added) < MaxAdds
    /\ \E delta \in HandDeltas :
          /\ built' = Patch_add_delta(built, delta)
          /\ added' = Append(added, delta)
    /\ UNCHANGED <<original, revised, context_size, patch, diff_out, api_out, apply_out,
                   restore_out, unified_out, hunks, unified_diff, parse_out, reapply_out,
                   undo_out, registry_vars, deltas_read, side_vars>>

\* patch.deltas is read: the value, the deltas added before the read, and the
\* value of the read before this one.
ReadDeltas ==
    /\ \E p \in {Patch_deltas(built)} :
          /\ built' = p
          /\ deltas_read' = [done |-> TRUE, value |-> p._deltas, of |-> added,
                              earlier |-> deltas_read.value]
    /\ UNCHANGED <<original, revised, context_size, patch, diff_out, api_out, apply_out,
                   restore_out, unified_out, hunks, unified_diff, parse_out, reapply_out,
                   undo_out, registry_vars, added, side_vars>>

NextPatch == AddDelta \/ ReadDeltas

SpecPatch == InitPatch /\ [][NextPatch]_vars

\* ------------------------------------------------------------------ two patches compared

\* The deltas added to the two patches: an insertion at 0, a deletion at 1.
PairDeltas ==
    {InsertDelta(Chunk(0, <<>>), Chunk(0, <<<<"a">>>>)),
     DeleteDelta(Chunk(1, <<<<"a">>>>), Chunk(1, <<>>))}

\* p = Patch(); q = Patch(): nothing is added, read or compared yet.
InitPair ==
    /\ built = Patch_init
    /\ added = <<>>
    /\ deltas_read = Pending
    /\ twin = Patch_init
    /\ twin_added = <<>>
    /\ equal_out = Pending
    /\ path_out = Pending
    /\ hunks = <<>>
    /\ unified_diff = <<>>
    /\ parse_out = Pending
    /\ NoPipeline
    /\ NoRegistry

\* p.add_delta(delta)
AddBuilt ==
    /\ ~equal_out.done /\ Len(added) < MaxPairAdds
    /\ \E delta \in PairDeltas :
          /\ built' = Patch_add_delta(built, delta)
          /\ added' = Append(added, delta)
    /\ UNCHANGED <<original, revised, context_size, patch, diff_out, api_out, apply_out,
                   restore_out, unified_out, hunks, unified_diff, parse_out, reapply_out,
                   undo_out, registry_vars, deltas_read, side_vars>>

\* q.add_delta(delta)
AddTwin ==
    /\ ~equal_out.done /\ Len(twin_added) < MaxPairAdds
    /\ \E delta \in PairDeltas :
          /\ twin' = Patch_add_delta(twin, delta)
          /\ twin_added' = Append(twin_added, delta)
    /\ UNCHANGED <<original, revised, context_size, patch, diff_out, api_out, apply_out,
                   restore_out, unified_out, hunks, unified_diff, parse_out, reapply_out,
                   undo_out, registry_vars, building_vars, path_out, equal_out>>

\* p.deltas is read.
ReadBuilt ==
    /\ ~equal_out.done
    /\ built' = Patch_deltas(built)
    /\ UNCHANGED <<original, revised, context_size, patch, diff_out, api_out, apply_out,
                   restore_out, unified_out, hunks, unified_diff, parse_out, reapply_out,
                   undo_out, registry_vars, added, deltas_read, side_vars>>

\* q.deltas is read.
ReadTwin ==
    /\ ~equal_out.done
    /\ twin' = Patch_deltas(twin)
    /\ UNCHANGED <<original, revised, context_size, patch, diff_out, api_out, apply_out,
                   restore_out, unified_out, hunks, unified_diff, parse_out, reapply_out,
                   undo_out, registry_vars, building_vars, path_out, twin_added, equal_out>>

\* p == q
Equal ==
    /\ ~equal_out.done
    /\ equal_out' = [done |-> TRUE, value |-> Patch_eq(built, twin)]
    /\ UNCHANGED <<original, revised, context_size, patch, diff_out, api_out, apply_out,
                   restore_out, unified_out, hunks, unified_diff, parse_out, reapply_out,
                   undo_out, registry_vars, building_vars, path_out, twin, twin_added>>

NextPair == AddBuilt \/ AddTwin \/ ReadBuilt \/ ReadTwin \/ Equal

SpecPair == InitPair /\ [][NextPair]_vars

\* ------------------------------------------------------------------ the emitter on a patch built by hand

\* The original the patches built by hand are for: MaxLines lines "a".
HandOriginal == [n \in 1..MaxLines |-> <<"a">>]

\* An edit of one line of the original: the line is removed, a line "b" is put
\* in before it, or it is replaced by "b".
Edits == [kind : {"DELETE", "INSERT", "CHANGE"}, position : 0..(MaxLines - 1)]

\* The lines an edit takes from the original and gives to the revised.
EditOriginal(e) == IF e.kind = "INSERT" THEN <<>> ELSE <<<<"a">>>>
EditRevised(e) == IF e.kind = "DELETE" THEN <<>> ELSE <<<<"b">>>>

\* Edits in ascending order that do not overlap.
EditLists ==
    {es \in SeqsUpTo(Edits, MaxAdds) :
        /\ es # <<>>
        /\ \A n \in 1..(Len(es) - 1) :
              /\ es[n].position < es[n + 1].position
              /\ es[n].position + Len(EditOriginal(es[n])) <= es[n + 1].position}

\* The deltas of the edits from edit n on, where shift is what the edits
\* before n added to the length.
RECURSIVE EditDeltas(_, _, _)
EditDeltas(es, n, shift) ==
    IF n > Len(es) THEN <<>>
    ELSE LET e == es[n] IN
         LET original_chunk == Chunk(e.position, EditOriginal(e)) IN
         LET revised_chunk == Chunk(e.position + shift, EditRevised(e)) IN
            <<MakeDelta(original_chunk, revised_chunk)>>
                \o EditDeltas(es, n + 1,
                              shift + Len(EditRevised(e)) - Len(EditOriginal(e)))

\* A patch the deltas of some edits were added to, the last edit first (the
\* order of build_revision); nothing is generated yet.
InitEmit ==
    /\ original = HandOriginal
    /\ context_size \in 0..MaxContext
    /\ \E es \in EditLists :
          /\ added = Reverse(EditDeltas(es, 1, 0))
          /\ built = AddAll(Patch_init, added)
    /\ deltas_read = Pending
    /\ revised = <<>>
    /\ patch = None
    /\ diff_out = Pending
    /\ api_out = Pending
    /\ apply_out = Pending
    /\ restore_out = Pending
    /\ unified_out = Pending
    /\ reapply_out = Pending
    /\ undo_out = Pending
    /\ hunks = <<>>
    /\ unified_diff = <<>>
    /\ parse_out = Pending
    /\ NoRegistry
    /\ NoSide

\* unified_diff = generate_unified_diff("a", "b", original, built, context_size)
GenerateBuilt ==
    /\ ~IsNone(built) /\ ~unified_out.done
    /\ \E r \in {generate_unified_diff(OriginalFile, RevisedFile, original, built,
                                      context_size)} :
          /\ unified_out' = r
          /\ built' = r.patch
          /\ unified_diff' = r.lines
    /\ UNCHANGED <<original, revised, context_size, patch, diff_out, api_out, apply_out,
                   restore_out, hunks, parse_out, reapply_out, undo_out, registry_vars,
                   added, deltas_read, side_vars>>

NextEmit == GenerateBuilt

SpecEmit == InitEmit /\ [][NextEmit]_vars

\* ------------------------------------------------------------------ properties

\* The length of a longest common subsequence, by exhaustive recursion.
RECURSIVE LCS(_, _)
LCS(a, b) ==
    IF a = <<>> \/ b = <<>> THEN 0
    ELSE IF Head(a) = Head(b) THEN 1 + LCS(Tail(a), Tail(b))
    ELSE Max(LCS(Tail(a), b), LCS(a, Tail(b)))

\* The lines a sequence of deltas deletes and inserts.
RECURSIVE EditSize(_)
EditSize(deltas) ==
    IF deltas = <<>> THEN 0
    ELSE Len(Head(deltas).original.lines) + Len(Head(deltas).revised.lines)
         + EditSize(Tail(deltas))

\* The number of lines whose first character is in tags.
RECURSIVE CountTagged(_, _)
CountTagged(lines, tags) ==
    IF lines = <<>> THEN 0
    ELSE (IF Head(lines) # <<>> /\ Head(lines)[1] \in tags THEN 1 ELSE 0)
         + CountTagged(Tail(lines), tags)

\* The lines of lines after header line n, up to the next header line.
BodyAfter(lines, n) ==
    LET later == {m \in (n + 1)..Len(lines) : MatchHeader(lines[m]).matched}
        stop  == IF later = {} THEN Len(lines) + 1
                 ELSE CHOOSE m \in later : \A q \in later : m <= q
    IN SubSeq(lines, n + 1, stop - 1)

\* C1: applying the patch of diff(A, B) to A returns B.
CE_C1 ==
    (apply_out.done /\ apply_out.arg = original)
        => (apply_out.exc = "None" /\ apply_out.result = revised)

CE_C3 ==
    restore_out.done => (restore_out.exc = "None" /\ restore_out.result = original)

\* C4: the lines the deltas of diff(A, B) delete and insert number
\* len(A) + len(B) - 2 * LCS(A, B).
CE_C4 ==
    diff_out.done
        => /\ diff_out.exc = "None"
           /\ EditSize(patch._deltas)
                = Len(original) + Len(revised) - 2 * LCS(original, revised)

\* C5: diff(A, A) returns a Patch with zero deltas, and applying that patch to
\* A returns a sequence equal to A.
CE_C5 ==
    (api_out.done /\ original = revised)
        => /\ api_out.diff_exc = "None"
           /\ ~IsNone(api_out.returned)
           /\ api_out.returned._deltas = <<>>
           /\ api_out.patched.exc = "None"
           /\ api_out.patched.result = original

Disagrees(h) ==
    \/ h.old_count # CountTagged(h.body, {" ", "-"})
    \/ h.new_count # CountTagged(h.body, {" ", "+"})

\* The hunk with the counts its body has.
Observed(h) ==
    [h EXCEPT !.old_count = CountTagged(h.body, {" ", "-"}),
              !.new_count = CountTagged(h.body, {" ", "+"})]

\* C9: a hunk header whose counts disagree with its body makes the strict parser
\* raise PatchFormatError, and the lenient parser warn with the payload of that
\* error and return what the observed counts give.
CE_C9 ==
    (parse_out.done /\ \E n \in 1..Len(hunks) : Disagrees(hunks[n]))
        => IF ~parse_out.lenient
           THEN parse_out.exc = "PatchFormatError"
           ELSE /\ parse_out.exc = "None"
                /\ parse_out.warnings # <<>>
                /\ parse_out.warnings[1] = parse_unified_diff(unified_diff, FALSE).error
                /\ parse_out.patch
                     = parse_unified_diff(
                           DiffText([n \in 1..Len(hunks) |-> Observed(hunks[n])]),
                           TRUE).patch

\* C10: apply_to and restore leave the sequence they are given as it was,
\* whether they return or raise.
Thm_C10 ==
    /\ apply_out.done => apply_out.target = apply_out.arg
    /\ restore_out.done => restore_out.target = restore_out.arg

\* C10's case: apply_to raised after its working copy was changed, and restore
\* has run too.
Wit_C10 ==
    /\ apply_out.done /\ apply_out.exc # "None" /\ apply_out.result # apply_out.arg
    /\ restore_out.done

\* Whether the original chunk of delta is found in target at its position.
Applies(delta, target) ==
    LET position == delta.original.position
        size == Len(delta.original.lines)
    IN /\ position + size <= Len(target)
       /\ SubSeq(target, position + 1, position + size) = delta.original.lines

\* C11: when some delta's original chunk is not found in the target at its
\* position, or reaches past the target's end, apply_to raises
\* PatchFailedException and nothing else.
CE_C11 ==
    (apply_out.done
        /\ \E n \in 1..Len(apply_out.patch._deltas) :
              ~Applies(apply_out.patch._deltas[n], apply_out.arg))
        => apply_out.exc = "PatchFailedException"

\* C12: undo_patch(B, patch), for the patch of diff(A, B), returns the sequence
\* Patch.restore computes, which equals A.
CE_C12 ==
    undo_out.done
        => /\ undo_out.exc = "None"
           /\ ~IsNone(undo_out.returned)
           /\ undo_out.returned = undo_out.restored
           /\ undo_out.returned = original

\* The example of a change within context: A = [x, foo, y], B = [x, bar, y].
S1_original == << <<"x">>, <<"f", "o", "o">>, <<"y">> >>
S1_revised == << <<"x">>, <<"b", "a", "r">>, <<"y">> >>

\* The lines the example is said to give for C = 1 and the names a and b.
S1_expected ==
    << <<"-", "-", "-", " ", "a">>, <<"+", "+", "+", " ", "b">>,
       <<"@", "@", " ", "-", "1", ",", "3", " ", "+", "1", ",", "3", " ", "@", "@">>,
       <<" ", "x">>, <<"-", "f", "o", "o">>, <<"+", "b", "a", "r">>, <<" ", "y">> >>

\* The lines generate_unified_diff returns for the example.
S1_emitted ==
    generate_unified_diff(OriginalFile, RevisedFile, S1_original,
                          diff(S1_original, S1_revised).val, 1).lines

Defaulted(h) ==
    [h EXCEPT !.old_count = IF IsNone(@) THEN Some(1) ELSE @,
              !.new_count = IF IsNone(@) THEN Some(1) ELSE @]

\* C14: a hunk header that omits a count is parsed as the header that states 1
\* for it (the same exception or none, as many warnings, the same patch), and
\* no error is raised when the body has one original and one revised line.
CE_C14 ==
    (parse_out.done /\ (IsNone(hunks[1].old_count) \/ IsNone(hunks[1].new_count)))
        => LET stated == parse_unified_diff(HeaderText(Defaulted(hunks[1])),
                                            parse_out.lenient)
           IN /\ parse_out.exc = stated.exc
              /\ Len(parse_out.warnings) = Len(stated.warnings)
              /\ parse_out.patch = stated.patch
              /\ (/\ CountTagged(hunks[1].body, {" ", "-"}) = 1
                  /\ CountTagged(hunks[1].body, {" ", "+"}) = 1)
                    => (parse_out.exc = "None" /\ parse_out.warnings = <<>>)

\* C15: create raises for every name other than None and the four names it
\* knows; with name None it returns the accelerated engine when that engine
\* can be used and the reference engine when it cannot, whatever
\* hash_optimization is.
CE_C15 ==
    \A n \in 1..Len(created) :
        LET call == created[n]
            usable == native /\ call.hash_optimization
        IN /\ (~IsNone(call.name) /\ call.name.v \notin KnownNames)
                => call.exc # "None"
           /\ IsNone(call.name)
                => /\ call.exc = "None"
                   /\ call.engine = IF usable THEN NativeDiffEngine
                                    ELSE MyersEngine(call.hash_optimization)

\* The bag of the elements of a sequence.
BagOf(s) == [x \in {s[n] : n \in 1..Len(s)} |-> Cardinality({n \in 1..Len(s) : s[n] = x})]

\* A sorted sequence with x put in after the elements whose position is not
\* larger.
InsertSorted(s, x) ==
    LET before == {n \in 1..Len(s) : s[n].original.position <= x.original.position}
    IN [n \in 1..(Len(s) + 1) |->
          IF n <= Cardinality(before) THEN s[n]
          ELSE IF n = Cardinality(before) + 1 THEN x
          ELSE s[n - 1]]

\* The deltas of s kept sorted at each insertion.
RECURSIVE KeptSorted(_)
KeptSorted(s) ==
    IF s = <<>> THEN <<>>
    ELSE InsertSorted(KeptSorted(SubSeq(s, 1, Len(s) - 1)), s[Len(s)])

\* C16: whatever the interleaving of add_delta calls and reads, a read of
\* Patch.deltas returns the deltas added so far, each as often as it was added,
\* in ascending order of original.position: the sequence that keeping the
\* deltas sorted at each insertion gives.
Thm_C16 ==
    deltas_read.done
        => /\ BagOf(deltas_read.value) = BagOf(deltas_read.of)
           /\ \A n \in 1..(Len(deltas_read.value) - 1) :
                 deltas_read.value[n].original.position
                    <= deltas_read.value[n + 1].original.position
           /\ deltas_read.value = KeptSorted(deltas_read.of)

\* C16's case: a read after a delta was added to a patch that had been read
\* before, where the delta added last does not belong at the end.
Wit_C16 ==
    /\ deltas_read.done
    /\ deltas_read.earlier # <<>>
    /\ Len(deltas_read.of) > Len(deltas_read.earlier)
    /\ deltas_read.value # deltas_read.of

\* The size rule of the delta's variant.
SizeRule(delta) ==
    LET original_size == Len(delta.original.lines)
        revised_size == Len(delta.revised.lines)
    IN IF delta.type = "INSERT" THEN original_size = 0 /\ revised_size > 0
       ELSE IF delta.type = "DELETE" THEN original_size > 0 /\ revised_size = 0
       ELSE original_size > 0 /\ revised_size > 0

HeaderLines(lines) ==
    LET at == {n \in 1..Len(lines) : MatchHeader(lines[n]).matched}
    IN [k \in 1..Cardinality(at) |->
          CHOOSE n \in at : Cardinality({m \in at : m < n}) = k - 1]

\* The pairs of consecutive deltas, given by the index of the first, that the
\* context C keeps apart.
Apart(deltas, C) ==
    {n \in 1..(Len(deltas) - 1) :
        deltas[n].original.position + Len(deltas[n].original.lines) + C
            < deltas[n + 1].original.position - C}

\* The hunk delta n belongs to: one more than the pairs apart before it.
HunkOf(deltas, C, n) == 1 + Cardinality({m \in Apart(deltas, C) : m < n})

\* The lines of the given side that the deltas of hunk k hold.
RECURSIVE HunkSize(_, _, _, _, _)
HunkSize(deltas, C, k, side, n) ==
    IF n > Len(deltas) THEN 0
    ELSE (IF HunkOf(deltas, C, n) = k THEN Len(deltas[n][side].lines) ELSE 0)
         + HunkSize(deltas, C, k, side, n + 1)

FirstOf(deltas, C, k) ==
    deltas[CHOOSE n \in 1..Len(deltas) :
              /\ HunkOf(deltas, C, n) = k
              /\ \A m \in 1..(n - 1) : HunkOf(deltas, C, m) < k]

InvalidLines(text) ==
    {n \in 3..Len(text) :
        /\ ~MatchHeader(text[n]).matched
        /\ text[n] # <<>>
        /\ text[n][1] \notin {" ", "+", "-"}}

\* The format error of line n of text.
InvalidTag(text, n) == FormatError("Invalid tag", 0, 0, text[n][1], n, text[n])

\* C20: a body line of no known tag, wherever it stands in its hunk, makes the
\* strict parser raise PatchFormatError with the line's number and text, and
\* the lenient parser warn with that payload, go on and return a patch without
\* raising.
CE_C20 ==
    (parse_out.done /\ InvalidLines(unified_diff) # {})
        => LET first == CHOOSE n \in InvalidLines(unified_diff) :
                            \A m \in InvalidLines(unified_diff) : n <= m
           IN IF ~parse_out.lenient
              THEN /\ parse_out.exc = "PatchFormatError"
                   /\ parse_out.error = InvalidTag(unified_diff, first)
              ELSE /\ parse_out.exc = "None"
                   /\ ~IsNone(parse_out.patch)
                   /\ Len(parse_out.warnings) = Cardinality(InvalidLines(unified_diff))
                   /\ parse_out.warnings[1] = InvalidTag(unified_diff, first)

\* The 1-based number of the header line of hunk k in DiffText(hs).
RECURSIVE HeaderLineNumber(_, _)
HeaderLineNumber(hs, k) ==
    IF k = 1 THEN 3
    ELSE HeaderLineNumber(hs, k - 1) + 1 + Len(hs[k - 1].body)

\* The count errors of hunk k, the original side first, citing its header.
CountErrors(hs, k) ==
    LET h == hs[k]
        actual_original == CountTagged(h.body, {" ", "-"})
        actual_revised == CountTagged(h.body, {" ", "+"})
    IN (IF h.old_count # actual_original
        THEN <<FormatError("Expected original lines", h.old_count, actual_original, "",
                           HeaderLineNumber(hs, k), HunkLine(h))>>
        ELSE <<>>)
       \o (IF h.new_count # actual_revised
           THEN <<FormatError("Expected revised lines", h.new_count, actual_revised, "",
                              HeaderLineNumber(hs, k), HunkLine(h))>>
           ELSE <<>>)

\* The count errors of the hunks from hunk k on.
RECURSIVE CountErrorsFrom(_, _)
CountErrorsFrom(hs, k) ==
    IF k > Len(hs) THEN <<>> ELSE CountErrors(hs, k) \o CountErrorsFrom(hs, k + 1)

\* C21: the error or warning reported for a hunk whose counts disagree with its
\* body cites the number and the text of that hunk's own header line, whether
\* the hunk is the first, a middle or the last one: the strict parser raises
\* the first such error of the text, the lenient parser gives them all in order.
Thm_C21 ==
    (parse_out.done /\ \E n \in 1..Len(hunks) : Disagrees(hunks[n]))
        => LET errors == CountErrorsFrom(hunks, 1)
           IN IF ~parse_out.lenient
              THEN /\ parse_out.exc = "PatchFormatError"
                   /\ parse_out.error = errors[1]
                   /\ unified_diff[parse_out.error.line_number] = parse_out.error.line
              ELSE /\ parse_out.exc = "None"
                   /\ parse_out.warnings = errors

\* C21's case: the lenient parser warned about the first, the middle and the
\* last of three hunks.
Wit_C21 ==
    /\ parse_out.done /\ parse_out.lenient
    /\ Len(hunks) = 3
    /\ \A n \in 1..3 : Disagrees(hunks[n])
    /\ Len(parse_out.warnings) >= 3

\* Whether the revised chunk of delta is found in target at its position.
Restorable(delta, target) ==
    LET position == delta.revised.position
        size == Len(delta.revised.lines)
    IN /\ position + size <= Len(target)
       /\ SubSeq(target, position + 1, position + size) = delta.revised.lines

\* C22: when some delta's revised chunk is not found in the target at its
\* position, or reaches past the target's end, restore raises
\* PatchFailedException and returns no sequence.
CE_C22 ==
    (restore_out.done
        /\ \E n \in 1..Len(restore_out.patch._deltas) :
              ~Restorable(restore_out.patch._deltas[n], restore_out.arg))
        => restore_out.exc = "PatchFailedException"

\* The diagonals build_path passes through in round d: -d, -d + 2, ..., d.
Diagonals(d) == {k \in -d..d : (k + d) % 2 = 0}

\* The indices of diagonal that one pass of the inner loop reads or writes.
PassIndices(middle, d, k) ==
    {middle + k - 1, middle + k}
        \cup (IF k = -d \/ k # d THEN {middle + k + 1} ELSE {})

\* The indices of diagonal used by a search that returned in round d on
\* diagonal k.
SearchIndices(middle, d, k) ==
    UNION {UNION {PassIndices(middle, dd, kk) :
                      kk \in {x \in Diagonals(dd) : dd < d \/ x <= k}} : dd \in 0..d}
        \cup {middle + dd - 1 : dd \in 0..(d - 1)}

\* C23: build_path returns a node from inside its loop over d: it raises
\* neither the RuntimeError after the loop nor an error of a slot that is
\* outside the list or holds None, and every index it uses lies in
\* 0 .. 2 * (N + M) + 2.
Thm_C23 ==
    path_out.done
        => LET size == 2 * (Len(original) + Len(revised)) + 3 IN
           /\ path_out.exc = "None"
           /\ ~IsNone(path_out.node)
           /\ path_out.d < Len(original) + Len(revised) + 1
           /\ \A idx \in SearchIndices(size \div 2, path_out.d, path_out.k) :
                 0 <= idx /\ idx < size

\* C23's case: a search over two full-length sequences with nothing in common
\* returned in its last possible round.
Wit_C23 ==
    /\ path_out.done
    /\ Len(original) = MaxLen /\ Len(revised) = MaxLen
    /\ path_out.exc = "None"
    /\ path_out.d = 2 * MaxLen

\* Whether node and every node before it on the prev chain lies in the grid of
\* N by M, the bootstrap node's j of -1 allowed.
RECURSIVE ChainInGrid(_, _, _)
ChainInGrid(node, N, M) ==
    \/ IsNone(node)
    \/ /\ 0 <= node.i /\ node.i <= N
       /\ node.j <= M
       /\ ChainInGrid(node.prev, N, M)

\* The number of nodes on the prev chain of node.
RECURSIVE ChainLength(_)
ChainLength(node) == IF IsNone(node) THEN 0 ELSE 1 + ChainLength(node.prev)

\* C25: the node build_path returns is at (len(A), len(B)) exactly, and every
\* node on its prev chain has 0 <= i <= len(A) and j <= len(B).
Thm_C25 ==
    (path_out.done /\ path_out.exc = "None")
        => /\ path_out.node.i = Len(original)
           /\ path_out.node.j = Len(revised)
           /\ ChainInGrid(path_out.node, Len(original), Len(revised))

\* C25's case: a search that went on for several rounds, so that nodes beyond
\* the grid's edge were made on the way, returned a chain of several nodes.
Wit_C25 ==
    /\ path_out.done /\ path_out.exc = "None"
    /\ Len(original) = 1 /\ Len(revised) = MaxLen
    /\ path_out.d >= 2
    /\ ChainLength(path_out.node) >= 3

\* The lines of body whose tag is in tags, without the tag.
RECURSIVE SideLines(_, _)
SideLines(body, tags) ==
    IF body = <<>> THEN <<>>
    ELSE (IF Head(body)[1] \in tags THEN <<Tail(Head(body))>> ELSE <<>>)
             \o SideLines(Tail(body), tags)

\* The two chunks of hunk h: the lines of each side at the position its header
\* states, counted from 0.
OriginalChunk(h) == Chunk(h.old_start - 1, SideLines(h.body, {" ", "-"}))
RevisedChunk(h) == Chunk(h.new_start - 1, SideLines(h.body, {" ", "+"}))

\* The deltas diff returns for the lines of hunk h, as Patch.deltas gives them.
HunkDiff(h) ==
    Patch_deltas(diff(OriginalChunk(h).lines, RevisedChunk(h).lines).val)._deltas

\* Whether moved is delta with its positions increased by those of hunk h.
MovedBy(moved, delta, h) ==
    /\ moved.type = delta.type
    /\ moved.original.lines = delta.original.lines
    /\ moved.revised.lines = delta.revised.lines
    /\ moved.original.position = delta.original.position + (h.old_start - 1)
    /\ moved.revised.position = delta.revised.position + (h.new_start - 1)

\* Whether diff_chunks gives, for the chunks of hunk h, the deltas of the diff
\* of their lines, each moved by the hunk's positions, in ascending order.
ChunkDiffMoved(h) ==
    LET returned == diff_chunks(OriginalChunk(h), RevisedChunk(h))
        deltas == HunkDiff(h)
    IN /\ returned.exc = "None"
       /\ Len(returned.deltas) = Len(deltas)
       /\ \A n \in 1..Len(deltas) : MovedBy(returned.deltas[n], deltas[n], h)
       /\ \A n \in 1..(Len(deltas) - 1) :
             returned.deltas[n].original.position <= returned.deltas[n + 1].original.position

\* The deltas of the hunks from hunk k on, each hunk's moved by its own header.
RECURSIVE MovedDeltasFrom(_, _)
MovedDeltasFrom(hs, k) ==
    IF k > Len(hs) THEN <<>>
    ELSE [n \in 1..Len(HunkDiff(hs[k])) |->
              [HunkDiff(hs[k])[n] EXCEPT
                  !.original.position = @ + (hs[k].old_start - 1),
                  !.revised.position = @ + (hs[k].new_start - 1)]]
             \o MovedDeltasFrom(hs, k + 1)

\* C24: diff_chunks returns, in ascending order of original.position, the
\* deltas of the diff of the two chunks' lines with each position increased by
\* its chunk's position, and the parser adds to its patch, hunk after hunk,
\* what diff_chunks gives for positions (old_ln - 1, new_ln - 1) of that hunk's
\* own header.
Thm_C24 ==
    parse_out.done
        => /\ parse_out.exc = "None"
           /\ \A n \in 1..Len(hunks) : ChunkDiffMoved(hunks[n])
           /\ parse_out.patch._deltas = MovedDeltasFrom(hunks, 1)

\* C24's case: three hunks were parsed, the first at line 1, the second, whose
\* diff has two deltas, at lines 3 and 4, and the last has a delta too.
Wit_C24 ==
    /\ parse_out.done /\ parse_out.exc = "None"
    /\ Len(hunks) = 3
    /\ hunks[1].old_start = 1 /\ hunks[2].old_start = 3
    /\ Len(HunkDiff(hunks[1])) = 1
    /\ Len(HunkDiff(hunks[2])) = 2
    /\ Len(HunkDiff(hunks[3])) = 1
    /\ Len(parse_out.patch._deltas) = 4

\* C26: two patches to which the same deltas, one or more, were added compare
\* equal, in whatever order the deltas were added and whether or not the
\* deltas of either patch have been read.
CE_C26 ==
    (equal_out.done /\ added # <<>> /\ BagOf(added) = BagOf(twin_added))
        => equal_out.value

====
